---- MODULE Spec2Model ----
(***************************************************************************)
(* Model of class InterpFunct (src/interp_funct.cpp): an interpolated 1D   *)
(* function loaded from a two-column file, or the constant 1.              *)
(*                                                                         *)
(* A double is a record [known, v].  A known double holds an integer v in  *)
(* units of 1/Scale (1.0 is Scale), so that the factors 0.99999 and        *)
(* 1.00001 are exact.  known = FALSE is an indeterminate value: a member   *)
(* the constructor never wrote, or an element read past the end of a       *)
(* vector.  A branch on an indeterminate value can go either way.          *)
(*                                                                         *)
(* The GSL calls are modelled by their contract: alloc hands out a fresh   *)
(* handle, free releases it, gsl_spline_eval reads the spline through the  *)
(* pointer.  gsl_spline_alloc(gsl_interp_cspline, n) needs n >= 3 and      *)
(* gsl_spline_init may reject abscissae that do not increase; GSL's        *)
(* default error handler (the source installs no other) aborts.            *)
(***************************************************************************)
EXTENDS Integers, Sequences, FiniteSets, TLC

\* Longest file content, in tokens.
MaxTokens == 7

\* Number of spline/accelerator handle pairs the allocator can hand out.
MaxLoads == 3

\* The vectors v_x, v_y cannot grow past this length: push_back then throws
\* std::bad_alloc, which nothing catches.
MemLimit == MaxTokens + 1

\* 0.99999 = FactorIn / Scale, 1.00001 = FactorOut / Scale, 1.0 = Scale / Scale.
Scale == 100000
FactorIn == 99999
FactorOut == 100001

\* Minimum number of points of gsl_interp_cspline.
CSplineMinSize == 3

Val(n) == [known |-> TRUE, v |-> n]
Indet == [known |-> FALSE, v |-> 0]
ValB(b) == [known |-> TRUE, v |-> b]
IndetB == [known |-> FALSE, v |-> FALSE]
One == Val(Scale)
Zero == Val(0)

(***************************************************************************)
(* Inputs.  A file is missing (stat fails), present but not openable, or   *)
(* present with a content: a sequence of numeric tokens separated by       *)
(* whitespace, with or without whitespace after the last one (ws), and     *)
(* possibly one token that is not a number (junkAt, 0 when there is none). *)
(***************************************************************************)
Shapes == {"up", "down", "pos"}

\* Pair k of a content of the given shape: x_k and y_k.
XOf(sh, k) == CASE sh = "up"   -> (k - 2) * Scale
                [] sh = "down" -> (4 - k) * Scale
                [] OTHER       -> k * Scale
YOf(sh, k) == CASE sh = "up"   -> 2 * k * Scale
                [] sh = "down" -> (0 - k) * Scale
                [] OTHER       -> Scale

Toks(sh, len) ==
    [i \in 1..len |-> IF i % 2 = 1 THEN XOf(sh, (i + 1) \div 2) ELSE YOf(sh, i \div 2)]

MissingFile == [st |-> "missing", toks |-> <<>>, ws |-> FALSE, junkAt |-> 0]
LockedFile == [st |-> "noopen", toks |-> <<>>, ws |-> FALSE, junkAt |-> 0]
DataFiles ==
    { [st |-> "ok", toks |-> Toks(sh, len), ws |-> w, junkAt |-> j] :
        sh \in Shapes, len \in 0..MaxTokens, w \in BOOLEAN, j \in 0..MaxTokens }
Files == {MissingFile, LockedFile} \cup {f \in DataFiles : f.junkAt <= Len(f.toks)}

\* Arguments of init(x_min_i, x_max_i) and of getY.
UnityBounds == {(0 - 1) * Scale, 0, Scale}
EvalPoints == {(0 - 5) * Scale, (0 - 1) * Scale, 0, Scale \div 2, Scale, 2 * Scale, 5 * Scale}

VARIABLES
    self,       \* the object's members: acc, spline, x_min, x_max, y_x_min,
                \* y_x_max, is_unity, is_init
    heap,       \* GSL's heap: live splines, live accelerators, misuse
    pc,         \* position of the process
    name,       \* init(name, is_ok): the file named by the current/last call
    fin,        \* readTwoColumnData: the stream
    v_x, v_y,   \* init(name, is_ok): the vectors being read
    last,       \* the operation the caller invoked last
    is_ok,      \* the caller's success flag
    latest,     \* how the latest init call ended: "file", "unity", "failed"
    args,       \* the bounds the latest init(x_min_i, x_max_i) was given
    ret,        \* what the last getY / getXmin / getXmax returned
    cout        \* what was written to standard output

vars == <<self, heap, pc, name, fin, v_x, v_y, last, is_ok, latest, args, ret, cout>>

(***************************************************************************)
(* GSL's heap.  spl holds the live splines, each with the data it was      *)
(* initialised with; acc the live accelerators, each with a flag telling   *)
(* whether an evaluation wrote its cache.  next is the last handle handed  *)
(* out; a member pointer that was never assigned is 0.  badfree records a  *)
(* free of a handle that is not live.                                      *)
(***************************************************************************)
EmptyHeap == [spl |-> {}, acc |-> {}, next |-> 0, badfree |-> FALSE]

LiveSplines(h) == {r.id : r \in h.spl}
LiveAccels(h) == {r.id : r \in h.acc}

\* gsl_spline_free(p)
SplineFree(h, p) ==
    IF p \in LiveSplines(h)
    THEN [h EXCEPT !.spl = {r \in @ : r.id # p}]
    ELSE [h EXCEPT !.badfree = TRUE]

\* gsl_interp_accel_free(p)
AccelFree(h, p) ==
    IF p \in LiveAccels(h)
    THEN [h EXCEPT !.acc = {r \in @ : r.id # p}]
    ELSE [h EXCEPT !.badfree = TRUE]

\* gsl_interp_accel_alloc(): a fresh accelerator, its cache not yet written.
AccelAlloc(h, id) == [h EXCEPT !.acc = @ \cup {[id |-> id, dirty |-> FALSE]}]

\* gsl_spline_alloc(gsl_interp_cspline, n) followed by gsl_spline_init(spline, x, y, n).
SplineAlloc(h, id, xs, ys) ==
    [h EXCEPT !.spl = @ \cup {[id |-> id, n |-> Len(xs), x |-> xs, y |-> ys]},
              !.next = id]

\* gsl_spline_eval(spline, x, acc) writes the accelerator's cache.
AccelTouch(h, p) ==
    [h EXCEPT !.acc = {IF r.id = p THEN [r EXCEPT !.dirty = TRUE] ELSE r : r \in @}]

(***************************************************************************)
(* The object.                                                             *)
(***************************************************************************)
\* InterpFunct(): only is_init is written.
Constructed ==
    [acc |-> 0, spline |-> 0, x_min |-> Indet, x_max |-> Indet,
     y_x_min |-> Indet, y_x_max |-> Indet, is_unity |-> IndetB, is_init |-> FALSE]

\* clear() without its call of gsl_interp_accel_free.
ClearSplineOnly(o, h) ==
    IF o.is_init
    THEN [o |-> [o EXCEPT !.x_min = Zero, !.x_max = Zero,
                          !.y_x_min = Zero, !.y_x_max = Zero,
                          !.is_unity = ValB(FALSE), !.is_init = FALSE],
          h |-> SplineFree(h, o.spline)]
    ELSE [o |-> o, h |-> h]

\* clear() without its test of is_init.
ClearUnguarded(o, h) ==
    [o |-> [o EXCEPT !.x_min = Zero, !.x_max = Zero,
                     !.y_x_min = Zero, !.y_x_max = Zero,
                     !.is_unity = ValB(FALSE), !.is_init = FALSE],
     h |-> AccelFree(SplineFree(h, o.spline), o.acc)]

\* clear(): the object and the heap after it.
Clear(o, h) ==
    IF o.is_init
    THEN [o |-> [o EXCEPT !.x_min = Zero, !.x_max = Zero,
                          !.y_x_min = Zero, !.y_x_max = Zero,
                          !.is_unity = ValB(FALSE), !.is_init = FALSE],
          h |-> AccelFree(SplineFree(h, o.spline), o.acc)]
    ELSE [o |-> o, h |-> h]

(***************************************************************************)
(* readTwoColumnData.                                                      *)
(***************************************************************************)
NoStream == [pos |-> 0, eof |-> FALSE, fail |-> FALSE]

\* readTwoColumnData without its test of stat's result.
StatNeverFails(f) == FALSE

\* stat(name.c_str(), &st) != 0
StatFails(f) == f.st = "missing"

\* std::ifstream fin(name): failbit is set when the file cannot be opened.
OpenStream(f) == [pos |-> 0, eof |-> FALSE, fail |-> f.st # "ok"]

\* fin >> tmp: the stream after it and the value of tmp.
\*  - a stream that is not good extracts nothing and sets failbit;
\*  - with only whitespace left, skipping it meets the end: eofbit and failbit;
\*  - a token that is no number sets failbit and is not consumed (tmp is 0 since
\*    C++11 and untouched before: indeterminate here);
\*  - a number is consumed; scanning it meets the end of the file, and sets
\*    eofbit, when it is the last token and no whitespace follows it.
Extract(f, s) ==
    IF s.fail \/ s.eof
    THEN [s |-> [s EXCEPT !.fail = TRUE], tmp |-> Indet]
    ELSE IF s.pos = Len(f.toks)
    THEN [s |-> [s EXCEPT !.eof = TRUE, !.fail = TRUE], tmp |-> Indet]
    ELSE IF f.junkAt = s.pos + 1
    THEN [s |-> [s EXCEPT !.fail = TRUE], tmp |-> Indet]
    ELSE [s |-> [s EXCEPT !.pos = @ + 1,
                          !.eof = (s.pos + 1 = Len(f.toks) /\ ~f.ws)],
          tmp |-> Val(f.toks[s.pos + 1])]

\* One pass of the loop body (lines 86-88): the stream and the vectors after it.
ReadBody(f, s, vx, vy) ==
    LET e1 == Extract(f, s)
        e2 == Extract(f, e1.s)
    IN  [s |-> e2.s,
         x |-> IF ~e1.s.eof THEN Append(vx, e1.tmp) ELSE vx,
         y |-> IF ~e2.s.eof THEN Append(vy, e2.tmp) ELSE vy]

(***************************************************************************)
(* init(name, is_ok) after the read, init(x_min_i, x_max_i), the getters.  *)
(***************************************************************************)
\* y[i] = v_y[i] for i < n = v_x.size(): an element past the end of v_y is
\* indeterminate.
CopyY(vx, vy) == [i \in 1..Len(vx) |-> IF i <= Len(vy) THEN vy[i] ELSE Indet]

\* gsl_spline_init's requirement on the abscissae.
Increasing(xs) ==
    \A i \in 1..(Len(xs) - 1) : xs[i].known /\ xs[i + 1].known /\ xs[i].v < xs[i + 1].v

\* "Finalize initialization" with the two ends of v_x exchanged.
FinalizeSwapped(o, id, vx, vy) ==
    LET n == Len(vx)
        ys == CopyY(vx, vy)
    IN  [o EXCEPT !.acc = id, !.spline = id,
                  !.x_min = vx[n], !.x_max = vx[1],
                  !.y_x_min = ys[1], !.y_x_max = ys[n],
                  !.is_unity = ValB(FALSE), !.is_init = TRUE]

\* "Finalize initialization" (lines 143-150).
Finalize(o, id, vx, vy) ==
    LET n == Len(vx)
        ys == CopyY(vx, vy)
    IN  [o EXCEPT !.acc = id, !.spline = id,
                  !.x_min = vx[1], !.x_max = vx[n],
                  !.y_x_min = ys[1], !.y_x_max = ys[n],
                  !.is_unity = ValB(FALSE), !.is_init = TRUE]

\* init(x_min_i, x_max_i) with an assignment of false to is_init added.
SetUnityClearsInit(o, a, b) ==
    [o EXCEPT !.x_min = Val(a), !.x_max = Val(b), !.is_unity = ValB(TRUE),
              !.is_init = FALSE]

\* init(x_min_i, x_max_i) without its assignment to is_unity.
SetUnityNoFlag(o, a, b) ==
    [o EXCEPT !.x_min = Val(a), !.x_max = Val(b)]

\* init(x_min_i, x_max_i)
SetUnity(o, a, b) ==
    [o EXCEPT !.x_min = Val(a), !.x_max = Val(b), !.is_unity = ValB(TRUE)]

\* getXmin(), getXmax(): x * 0.99999 or x * 1.00001, exact for the whole
\* numbers the model stores.
Times(d, factor) == Val((d.v \div Scale) * factor)

GetXminValue(o) ==
    IF ~o.x_min.known THEN Indet
    ELSE IF o.x_min.v > 0 THEN Times(o.x_min, FactorIn) ELSE Times(o.x_min, FactorOut)

\* getXmax() with the two factors exchanged.
GetXmaxInward(o) ==
    IF ~o.x_max.known THEN Indet
    ELSE IF o.x_max.v > 0 THEN Times(o.x_max, FactorIn) ELSE Times(o.x_max, FactorOut)

GetXmaxValue(o) ==
    IF ~o.x_max.known THEN Indet
    ELSE IF o.x_max.v > 0 THEN Times(o.x_max, FactorOut) ELSE Times(o.x_max, FactorIn)

\* Whether a test on a possibly indeterminate value can come out true / false.
CanBeTrue(b) == ~b.known \/ b.v
CanBeFalse(b) == ~b.known \/ ~b.v
CanBeLess(x, d) == ~d.known \/ x < d.v
CanBeNotLess(x, d) == ~d.known \/ ~(x < d.v)
CanBeGreater(x, d) == ~d.known \/ x > d.v
CanBeNotGreater(x, d) == ~d.known \/ ~(x > d.v)

\* getY(x): what it can return.  kind "const" is a value returned without the
\* spline, "eval" the value of gsl_spline_eval on live handles, "wild" a call of
\* gsl_spline_eval through a pointer that is not live.
GetYOutcomes(o, h, x) ==
    {[kind |-> "const", val |-> One, h |-> 0] : u \in {b \in {o.is_unity} : CanBeTrue(b)}}
    \cup
    {[kind |-> "const", val |-> o.y_x_min, h |-> 0] :
        u \in {b \in {o.is_unity} : CanBeFalse(b) /\ CanBeLess(x, o.x_min)}}
    \cup
    {[kind |-> "const", val |-> o.y_x_max, h |-> 0] :
        u \in {b \in {o.is_unity} :
                 CanBeFalse(b) /\ CanBeNotLess(x, o.x_min) /\ CanBeGreater(x, o.x_max)}}
    \cup
    {[kind |-> IF o.spline \in LiveSplines(h) /\ o.acc \in LiveAccels(h)
               THEN "eval" ELSE "wild",
      val |-> Val(x), h |-> o.spline] :
        u \in {b \in {o.is_unity} :
                 CanBeFalse(b) /\ CanBeNotLess(x, o.x_min) /\ CanBeNotGreater(x, o.x_max)}}

NoRet == [x |-> 0, kind |-> "none", val |-> Indet, h |-> 0]

(***************************************************************************)
(* The state machine.  pc is "idle" between the caller's calls, "reading"  *)
(* inside the loop of readTwoColumnData, "exited" after exit(0),           *)
(* "crashed" after an abort, "destroyed" after the destructor.             *)
(***************************************************************************)
Init ==
    /\ self = Constructed
    /\ heap = EmptyHeap
    /\ pc = "idle"
    /\ name = MissingFile
    /\ fin = NoStream
    /\ v_x = <<>>
    /\ v_y = <<>>
    /\ last = "none"
    /\ is_ok = "unset"
    /\ latest = "none"
    /\ args = <<0, 0>>
    /\ ret = NoRet
    /\ cout = <<>>

\* init(name, is_ok) up to the loop of readTwoColumnData, called directly
\* (wrapped = FALSE) or from init(name), whose tail (lines 162-166) then follows
\* a failure.
InitCall(f, wrapped) ==
    /\ pc = "idle"
    /\ heap.next < MaxLoads
    /\ LET c == Clear(self, heap)
       IN  /\ self' = c.o
           /\ heap' = c.h
    /\ name' = f
    /\ last' = IF wrapped THEN "initOrAbort" ELSE "init"
    /\ v_x' = <<>>
    /\ v_y' = <<>>
    /\ args' = <<0, 0>>
    /\ ret' = NoRet
    /\ IF StatFails(f)
       THEN /\ is_ok' = "false"
            /\ latest' = "failed"
            /\ fin' = NoStream
            /\ pc' = IF wrapped THEN "exited" ELSE "idle"
            /\ cout' = IF wrapped THEN Append(cout, f) ELSE cout
       ELSE /\ is_ok' = IF wrapped THEN "false" ELSE "unset"
            /\ latest' = "loading"
            /\ fin' = OpenStream(f)
            /\ pc' = "reading"
            /\ cout' = cout

\* init(name, is_ok)
InitFromFile == \E f \in Files : InitCall(f, FALSE)

\* init(name)
InitFromFileOrAbort == \E f \in Files : InitCall(f, TRUE)

\* while(!fin.eof()) { ... }: one pass.  A push_back past the memory limit
\* throws std::bad_alloc.
ReadLoop ==
    /\ pc = "reading"
    /\ ~fin.eof
    /\ LET b == ReadBody(name, fin, v_x, v_y)
       IN  IF Len(b.x) > MemLimit \/ Len(b.y) > MemLimit
           THEN /\ pc' = "crashed"
                /\ UNCHANGED <<fin, v_x, v_y, args>>
           ELSE /\ fin' = b.s
                /\ v_x' = b.x
                /\ v_y' = b.y
                /\ pc' = pc
    /\ UNCHANGED <<self, heap, name, last, is_ok, latest, ret, cout, args>>

\* The loop has ended: fin.close(), return true, and lines 131-150 of
\* init(name, is_ok), which succeed.
InitBuild ==
    /\ pc = "reading"
    /\ fin.eof
    /\ Len(v_x) >= CSplineMinSize
    /\ LET id == heap.next + 1
       IN  /\ heap' = SplineAlloc(AccelAlloc(heap, id), id, v_x, CopyY(v_x, v_y))
           /\ self' = Finalize(self, id, v_x, v_y)
    /\ is_ok' = "true"
    /\ latest' = "file"
    /\ pc' = "idle"
    /\ UNCHANGED <<name, fin, v_x, v_y, last, ret, cout, args>>

\* The loop has ended and lines 131-140 abort:
\*  - line 136 reads v_y past its end, which a library built with assertions
\*    refuses;
\*  - line 139, gsl_spline_alloc, with fewer points than the cubic spline needs;
\*  - line 140, gsl_spline_init, with abscissae that do not increase (checked by
\*    some versions of the library).
InitAbort ==
    /\ pc = "reading"
    /\ fin.eof
    /\ \/ /\ Len(v_y) < Len(v_x)
          /\ heap' = heap
          /\ self' = self
       \/ /\ Len(v_x) < CSplineMinSize
          /\ heap' = AccelAlloc(heap, heap.next + 1)
          /\ self' = [self EXCEPT !.acc = heap.next + 1]
       \/ /\ Len(v_x) >= CSplineMinSize
          /\ ~Increasing(v_x)
          /\ heap' = SplineAlloc(AccelAlloc(heap, heap.next + 1), heap.next + 1,
                                 v_x, CopyY(v_x, v_y))
          /\ self' = [self EXCEPT !.acc = heap.next + 1, !.spline = heap.next + 1]
    /\ pc' = "crashed"
    /\ UNCHANGED <<name, fin, v_x, v_y, last, is_ok, latest, ret, cout, args>>

\* init(x_min_i, x_max_i)
InitUnity ==
    /\ pc = "idle"
    /\ \E a \in UnityBounds, b \in UnityBounds :
          /\ self' = SetUnity(self, a, b)
          /\ args' = <<a, b>>
    /\ latest' = "unity"
    /\ last' = "initUnity"
    /\ ret' = NoRet
    /\ UNCHANGED <<heap, pc, name, fin, v_x, v_y, is_ok, cout>>

\* getXmin()
GetXmin ==
    /\ pc = "idle"
    /\ ret' = [x |-> 0, kind |-> "bound", val |-> GetXminValue(self), h |-> 0]
    /\ last' = "getXmin"
    /\ UNCHANGED <<self, heap, pc, name, fin, v_x, v_y, is_ok, latest, cout, args>>

\* getXmax()
GetXmax ==
    /\ pc = "idle"
    /\ ret' = [x |-> 0, kind |-> "bound", val |-> GetXmaxValue(self), h |-> 0]
    /\ last' = "getXmax"
    /\ UNCHANGED <<self, heap, pc, name, fin, v_x, v_y, is_ok, latest, cout, args>>

\* The arguments getY is called with: the fixed points, and a bound the
\* caller has just been given (as main does).
GetYArgs ==
    EvalPoints \cup {r.val.v : r \in {q \in {ret} : q.kind = "bound" /\ q.val.known}}

\* getY(x).  A call of gsl_spline_eval through a pointer that is not live
\* returns anything or ends the process.
GetY ==
    /\ pc = "idle"
    /\ \E x \in GetYArgs : \E r \in GetYOutcomes(self, heap, x) :
          /\ ret' = [x |-> x, kind |-> r.kind, val |-> r.val, h |-> r.h]
          /\ heap' = IF r.kind = "eval" THEN AccelTouch(heap, self.acc) ELSE heap
          /\ \/ pc' = pc
             \/ /\ r.kind = "wild"
                /\ pc' = "crashed"
    /\ last' = "getY"
    /\ UNCHANGED <<self, name, fin, v_x, v_y, is_ok, latest, cout, args>>

\* ~InterpFunct()
Destroy ==
    /\ pc = "idle"
    /\ LET c == Clear(self, heap)
       IN  /\ self' = c.o
           /\ heap' = c.h
    /\ pc' = "destroyed"
    /\ last' = "destroy"
    /\ ret' = NoRet
    /\ UNCHANGED <<name, fin, v_x, v_y, is_ok, latest, cout, args>>

Next ==
    \/ InitFromFile
    \/ InitFromFileOrAbort
    \/ ReadLoop
    \/ InitBuild
    \/ InitAbort
    \/ InitUnity
    \/ GetXmin
    \/ GetXmax
    \/ GetY
    \/ Destroy

Spec == Init /\ [][Next]_vars

(***************************************************************************)
(* What a file holds: its complete pairs, in file order.                   *)
(***************************************************************************)
NPairs(f) == Len(f.toks) \div 2
PairX(f, k) == Val(f.toks[2 * k - 1])
PairY(f, k) == Val(f.toks[2 * k])

\* The instance is in a state the caller sees, right after a load of the
\* file `name` succeeded.
Loaded == pc = "idle" /\ latest = "file"

(***************************************************************************)
(* Properties.                                                             *)
(***************************************************************************)

\* C1: in data mode, after a successful load of a file holding N complete
\* pairs, x_min = x_1 and x_max = x_N, getY returns exactly y_1 below x_min and
\* exactly y_N above x_max, and asks the spline only for x_min <= x <= x_max.
C1_FlatExtrapolation ==
    Loaded =>
        LET N == NPairs(name)
        IN  /\ self.x_min = PairX(name, 1)
            /\ self.x_max = PairX(name, N)
            /\ last = "getY" =>
                 /\ ret.x < PairX(name, 1).v => ret.kind = "const" /\ ret.val = PairY(name, 1)
                 /\ ret.x > PairX(name, N).v => ret.kind = "const" /\ ret.val = PairY(name, N)
                 /\ ret.kind # "const" =>
                      PairX(name, 1).v <= ret.x /\ ret.x <= PairX(name, N).v

\* C2: after init(x_min_i, x_max_i), from any prior state and for bounds in
\* either order, getY returns exactly 1.0 for every x, until the next init.
C2_UnityReturnsOne ==
    (last = "getY" /\ latest = "unity") =>
        (pc = "idle" /\ ret.kind = "const" /\ ret.val = One)

\* C2's case: unity mode entered from data mode (a spline is still held), with
\* the bounds in descending order, evaluated outside them.
C2_Witness ==
    /\ last = "getY"
    /\ latest = "unity"
    /\ self.is_init
    /\ self.x_min.v > self.x_max.v
    /\ ret.x > self.x_min.v
    /\ ret.val = One

\* C3: init(name, is_ok) on a path that does not exist sets is_ok to false and
\* returns: the process goes on, nothing is read, and no spline or accelerator
\* is allocated.
C3_MissingFileFails ==
    [][(pc = "idle" /\ last' = "init" /\ name'.st = "missing") =>
          /\ is_ok' = "false"
          /\ pc' = "idle"
          /\ fin' = NoStream
          /\ v_x' = <<>> /\ v_y' = <<>>
          /\ heap'.next = heap.next
          /\ LiveSplines(heap') \subseteq LiveSplines(heap)
          /\ LiveAccels(heap') \subseteq LiveAccels(heap)]_vars

\* C3's case: a load of a missing file has just returned (here after an earlier
\* successful load).
C3_Witness ==
    /\ last = "init"
    /\ name.st = "missing"
    /\ is_ok = "false"
    /\ pc = "idle"
    /\ heap.next > 0

\* C4: whenever init(name, is_ok) fails, the instance is Uninitialized
\* afterwards, is_init = false and is_unity = false, whatever its prior state.
C4_FailureLeavesUninitialized ==
    (last = "init" /\ latest = "failed" /\ pc = "idle") =>
        (self.is_init = FALSE /\ self.is_unity = ValB(FALSE))

\* C5: after successful init calls getY reflects only the latest one: 1.0 after
\* init(x_min_i, x_max_i); after a file load, the boundary samples and the
\* spline of that file alone.
C5_LatestInitOnly ==
    /\ (last = "getY" /\ latest = "unity") => (ret.kind = "const" /\ ret.val = One)
    /\ Loaded =>
         LET N == NPairs(name)
         IN  /\ self.is_unity = ValB(FALSE)
             /\ self.x_min = PairX(name, 1)
             /\ self.x_max = PairX(name, N)
             /\ self.y_x_min = PairY(name, 1)
             /\ self.y_x_max = PairY(name, N)
             /\ heap.spl = {[id |-> self.spline, n |-> N,
                             x |-> [k \in 1..N |-> PairX(name, k)],
                             y |-> [k \in 1..N |-> PairY(name, k)]]}
             /\ (last = "getY" /\ ret.kind # "const") =>
                  (ret.kind = "eval" /\ ret.h = self.spline)

\* C6: over any sequence of init calls ended by destruction the spline handle
\* is never leaked or freed twice: a load frees a held spline before it reads,
\* whether or not it succeeds; a spline is allocated only while none is held;
\* no free hits a handle that is not live; nothing is held after the destructor,
\* and the destructor of an Uninitialized instance frees nothing.
C6_NoLeakNoDoubleFree ==
    [][/\ ~heap'.badfree
       /\ pc' = "reading" => LiveSplines(heap') = {}
       /\ (pc = "idle" /\ last' \in {"init", "initOrAbort"}) => LiveSplines(heap') = {}
       /\ LiveSplines(heap') \ LiveSplines(heap) # {} => LiveSplines(heap) = {}
       /\ Cardinality(LiveSplines(heap')) <= 1
       /\ pc' \in {"idle", "destroyed"} =>
            LiveSplines(heap') = {p \in {self'.spline} : self'.is_init}
       /\ pc' = "destroyed" => LiveSplines(heap') = {}
       /\ (pc' = "destroyed" /\ ~self.is_init) => heap' = heap]_vars

\* C6's case: two loads succeeded, a third failed, and the instance was
\* destroyed.
C6_Witness ==
    /\ pc = "destroyed"
    /\ heap.next >= 2
    /\ latest = "failed"

\* C7: a spline is held if and only if data mode is active (the latest init
\* was a successful file load); none is held in unity mode.
C7_SplineIffDataMode ==
    pc \in {"idle", "reading"} => (LiveSplines(heap) # {} <=> latest = "file")

\* C8: for x_min < x_max, getXmin() and getXmax() lie strictly within
\* [x_min, x_max]: x_min < getXmin() and getXmax() < x_max.
C8_BoundsInside ==
    (self.x_min.known /\ self.x_max.known /\ self.x_min.v < self.x_max.v) =>
        /\ last = "getXmin" => self.x_min.v < ret.val.v
        /\ last = "getXmax" => ret.val.v < self.x_max.v

\* C9: for a content of T numeric tokens, with or without whitespace after the
\* last, readTwoColumnData returns x and y of equal length floor(T/2) holding
\* the complete pairs in file order, and the spline is built from that many
\* samples.
C9_CompletePairs ==
    /\ (pc = "reading" /\ fin.eof) =>
         /\ Len(v_x) = NPairs(name)
         /\ Len(v_y) = NPairs(name)
         /\ \A k \in 1..NPairs(name) : v_x[k] = PairX(name, k) /\ v_y[k] = PairY(name, k)
    /\ Loaded => \A r \in heap.spl : r.n = NPairs(name)

\* C10: init(name, is_ok) on a path that exists but cannot be opened returns
\* to the caller with is_ok false, as for a missing file.
C10_UnopenableFailsGracefully ==
    (last = "init" /\ name.st = "noopen" /\ pc # "reading") =>
        (pc = "idle" /\ is_ok = "false")

\* C11: the loop of readTwoColumnData ends for every file content, also with a
\* token that is no number or a dangling last value: a load of a file that
\* opens never hangs or dies inside the loop, it leaves it with finite v_x and
\* v_y.
C11_ReadLoopTerminates ==
    (last \in {"init", "initOrAbort"} /\ name.st = "ok" /\ pc = "crashed") => fin.eof

\* C12: init(name) ends the process if and only if the init(name, is_ok) it
\* calls fails, after writing a diagnostic that names the path; on success it
\* returns with the instance in data mode.  No other operation ever ends the
\* process.
C12_OnlyInitOrAbortTerminates ==
    /\ (last = "initOrAbort" /\ latest = "failed") =>
          (pc = "exited" /\ cout # <<>> /\ cout[Len(cout)] = name)
    /\ pc = "exited" => (last = "initOrAbort" /\ latest = "failed")
    /\ (last = "initOrAbort" /\ latest = "file") =>
          (pc = "idle" /\ self.is_init /\ self.is_unity = ValB(FALSE))
    /\ pc # "crashed"

\* C13: getY never reaches gsl_spline_eval without a live spline and a live
\* accelerator: every call that does not take a constant branch evaluates the
\* spline the instance holds.
C13_EvalOnlyWithLiveSpline ==
    last = "getY" => ret.kind \in {"const", "eval"}

\* The x column of a file (its odd-numbered tokens) never decreases.
XTokensAscending(f) ==
    \A i, j \in 1..Len(f.toks) :
        (i % 2 = 1 /\ j % 2 = 1 /\ i <= j) => f.toks[i] <= f.toks[j]

\* The instance is in data mode or in unity mode by its latest initialization.
Initialized == pc = "idle" /\ latest \in {"file", "unity"}

\* C14 as stated: x_min <= x_max in every reachable state of an initialized
\* instance, after any sequence of init(name, is_ok) and init(x_min_i, x_max_i)
\* calls.
C14_BoundsOrderedAlways ==
    Initialized => self.x_min.v <= self.x_max.v

\* C14, amended: x_min <= x_max in every state of an initialized instance
\* whose latest initialization was init(x_min_i, x_max_i) with
\* x_min_i <= x_max_i, or a successful load of a file whose x column never
\* decreases; the bounds are then known values.
C14_BoundsOrderedForOrderedInput ==
    /\ (Initialized /\ latest = "unity" /\ args[1] <= args[2]) =>
          (self.x_min.known /\ self.x_max.known /\ self.x_min.v <= self.x_max.v)
    /\ (Initialized /\ latest = "file" /\ XTokensAscending(name)) =>
          (self.x_min.known /\ self.x_max.known /\ self.x_min.v <= self.x_max.v)

\* A second successful load of an ascending file, the bounds apart.
C14_Witness ==
    /\ Loaded /\ heap.next >= 2 /\ XTokensAscending(name)
    /\ self.x_min.v < self.x_max.v

\* C15: between the operations of a running process the spline and its
\* accelerator are held together or not at all, and held exactly when is_init
\* is true; a successful load gives the new spline an accelerator that was
\* never allocated before and whose cache no evaluation has written.
C15_SplineAndAccelInLockstep ==
    [][ pc' # "crashed" =>
          /\ LiveSplines(heap') = LiveAccels(heap')
          /\ self'.is_init <=>
                (self'.spline \in LiveSplines(heap') /\ self'.acc \in LiveAccels(heap'))
          /\ ~self'.is_init => (LiveSplines(heap') = {} /\ LiveAccels(heap') = {})
          /\ (pc = "reading" /\ pc' = "idle") =>
                /\ self'.acc > heap.next
                /\ self'.acc \notin LiveAccels(heap)
                /\ [id |-> self'.acc, dirty |-> FALSE] \in heap'.acc
                /\ LiveAccels(heap') = {self'.acc}
      ]_vars

\* A rebuilt spline has been evaluated, after an earlier one was: its
\* accelerator's cache is written.
C15_Witness ==
    /\ pc = "idle" /\ self.is_init /\ heap.next >= 2
    /\ last = "getY" /\ ret.kind = "eval"
    /\ [id |-> self.acc, dirty |-> TRUE] \in heap.acc

\* getXmin() <= x_min and getXmax() >= x_max for a stored bound, with equality
\* only when the bound is 0.
BoundsMoveOutward ==
    /\ (last = "getXmin" /\ self.x_min.known) =>
          /\ ret.val.known
          /\ ret.val.v <= self.x_min.v
          /\ (ret.val.v = self.x_min.v) <=> (self.x_min.v = 0)
    /\ (last = "getXmax" /\ self.x_max.known) =>
          /\ ret.val.known
          /\ ret.val.v >= self.x_max.v
          /\ (ret.val.v = self.x_max.v) <=> (self.x_max.v = 0)

C17_UnityInitFrame ==
    [][ /\ (pc = "idle" /\ last' = "initUnity") =>
              /\ self'.is_init = self.is_init
              /\ self'.spline = self.spline
              /\ self'.acc = self.acc
              /\ self'.y_x_min = self.y_x_min
              /\ self'.y_x_max = self.y_x_max
              /\ heap' = heap
              /\ self'.x_min = Val(args'[1])
              /\ self'.x_max = Val(args'[2])
              /\ self'.is_unity = ValB(TRUE)
        /\ (LiveSplines(heap) \ LiveSplines(heap') # {}) =>
              (pc = "idle" /\ last' \in {"init", "initOrAbort", "destroy"})
        /\ (pc = "idle" /\ last' \in {"init", "initOrAbort", "destroy"} /\ self.is_init) =>
              /\ self.spline \in LiveSplines(heap)
              /\ self.spline \notin LiveSplines(heap')
        /\ ~heap'.badfree
        /\ (pc = "idle" /\ last' \in {"init", "initOrAbort"} /\ ~self.is_init) =>
              /\ self'.x_min = self.x_min
              /\ self'.x_max = self.x_max
              /\ self'.is_unity = self.is_unity
              /\ (latest = "unity" => self'.is_unity = ValB(TRUE))
      ]_vars

\* Unity mode entered from data mode: the spline of the earlier load is still
\* held.
C17_Witness ==
    /\ pc = "idle" /\ last = "initUnity" /\ latest = "unity"
    /\ self.is_init /\ self.spline \in LiveSplines(heap)

====
